---- MODULE Spec2Model ----
(***************************************************************************)
(* ChessX100: a 10x10 chess variant served over a small JSON API.          *)
(* The model follows the server (src/unnamed/part_000): the single global  *)
(* `game` object, the POST /api/move handler and the POST /api/reset       *)
(* handler, with the legality functions as operators.                      *)
(*                                                                         *)
(* Encoding of JavaScript values:                                          *)
(*   null              <<>>                                                *)
(*   undefined         <<"undefined">>   (an array read past its length)   *)
(*   a piece "wP"      <<"w", "P">>      (piece[0] is p[1], piece[1] p[2]) *)
(*   a square {r, c}   <<r, c>>                                            *)
(*   a string          the sequence of its characters                      *)
(***************************************************************************)
EXTENDS Integers, Sequences, FiniteSets, TLC

VARIABLES game, req, res, last, budget, tasks, serial

vars == <<game, req, res, last, budget, tasks, serial>>

SIZE == 10

\* Number of state-changing requests (accepted moves, resets) explored after
\* the starting position of a behaviour.
MaxPly == 2

NULL == <<>>
UNDEFINED == <<"undefined">>

R(sq) == sq[1]
C(sq) == sq[2]

Abs(x) == IF x < 0 THEN -x ELSE x
Sign(x) == IF x < 0 THEN -1 ELSE IF x > 0 THEN 1 ELSE 0

Piece(color, type) == <<color, type>>

\* Back rank: R N B A Q K A B N R
backRank(color) ==
  << Piece(color, "R"), Piece(color, "N"), Piece(color, "B"), Piece(color, "A"),
     Piece(color, "Q"), Piece(color, "K"), Piece(color, "A"), Piece(color, "B"),
     Piece(color, "N"), Piece(color, "R") >>

initialBoard ==
  [r \in 0..(SIZE - 1) |->
     [c \in 0..(SIZE - 1) |->
        IF r = 0 THEN backRank("b")[c + 1]
        ELSE IF r = 1 THEN Piece("b", "P")
        ELSE IF r = SIZE - 2 THEN Piece("w", "P")
        ELSE IF r = SIZE - 1 THEN backRank("w")[c + 1]
        ELSE NULL]]

Files == <<"a", "b", "c", "d", "e", "f", "g", "h", "i", "j">>
Digits == <<"0", "1", "2", "3", "4", "5", "6", "7", "8", "9">>

\* Number.prototype.toString for a non-negative integer: its decimal digits.
RECURSIVE toString(_)
toString(n) ==
  IF n < 10 THEN <<Digits[n + 1]>>
  ELSE toString(n \div 10) \o <<Digits[(n % 10) + 1]>>

toAlgebraic(r, c) == <<Files[c + 1]>> \o toString(SIZE - r)

pieceToNotation(pieceType) ==
  CASE pieceType = "P" -> <<>>
    [] pieceType = "R" -> <<"R">>
    [] pieceType = "B" -> <<"B">>
    [] pieceType = "N" -> <<"N">>
    [] pieceType = "A" -> <<"A">>
    [] pieceType = "Q" -> <<"Q">>
    [] pieceType = "K" -> <<"K">>
    [] OTHER -> <<>>

initialGame ==
  [board |-> initialBoard,
   turn |-> "w",
   moveNumber |-> 1,
   isOver |-> FALSE,
   enPassantTarget |-> NULL,
   enPassantPawn |-> NULL,
   moves |-> <<>>]

inBounds(r, c) == r >= 0 /\ r < SIZE /\ c >= 0 /\ c < SIZE

colorOf(piece) == IF piece = NULL \/ piece = UNDEFINED THEN NULL ELSE piece[1]

typeOf(piece) == IF piece = NULL \/ piece = UNDEFINED THEN NULL ELSE piece[2]

\* board[r] is an array exactly for the rows 0..SIZE-1; reading a property of
\* the undefined board[r] of any other row raises a TypeError.
RowThrows(r) == r < 0 \/ r >= SIZE

\* board[r][c] for a row that exists: the cell, or undefined past the row's end.
Cell(board, r, c) == IF c >= 0 /\ c < SIZE THEN board[r][c] ELSE UNDEFINED

\* The loop of pathClear from the square (r, c) on.  Its result is "true" or
\* "false", or "TypeError" when board[r] is read for a row off the board; a
\* column off the board reads undefined, which is not null, and returns false.
RECURSIVE pathWalk(_, _, _, _, _, _)
pathWalk(board, r, c, dr, dc, to) ==
  IF r = R(to) /\ c = C(to) THEN "true"
  ELSE IF RowThrows(r) THEN "TypeError"
  ELSE IF Cell(board, r, c) # NULL THEN "false"
  ELSE pathWalk(board, r + dr, c + dc, dr, dc, to)

\* Mutant of pathClear: the squares on the way are not looked at.
pathClearAlways(board, from, to) == "true"

pathClear(board, from, to) ==
  LET dr == Sign(R(to) - R(from))
      dc == Sign(C(to) - C(from))
  IN  pathWalk(board, R(from) + dr, C(from) + dc, dr, dc, to)

\* Mutant of enPassantOk: the window is not consulted; an opposing pawn beside
\* the capturing pawn is enough.
enPassantOkNoWindow(board, from, to, color, enPassantTarget, enPassantPawn) ==
  /\ board[R(to)][C(to)] = NULL
  /\ LET victim == board[R(from)][C(to)]
     IN  victim # NULL /\ victim[2] = "P" /\ colorOf(victim) # color

\* The en passant clause: a diagonal move into an empty square that matches
\* enPassantTarget, with enPassantPawn beside the capturing pawn.
enPassantOk(board, from, to, color, enPassantTarget, enPassantPawn) ==
  /\ board[R(to)][C(to)] = NULL
  /\ enPassantTarget # NULL
  /\ enPassantPawn # NULL
  /\ R(to) = R(enPassantTarget)
  /\ C(to) = C(enPassantTarget)
  /\ R(enPassantPawn) = R(from)
  /\ C(enPassantPawn) = C(to)
  /\ LET victim == board[R(enPassantPawn)][C(enPassantPawn)]
     IN  victim # NULL /\ victim[2] = "P" /\ colorOf(victim) # color

\* Mutant of isValidPawnMove: the double step does not look at its
\* destination square.
isValidPawnMoveOntoPiece(board, from, to, color, enPassantTarget, enPassantPawn) ==
  LET dir == IF color = "w" THEN -1 ELSE 1
      startRow == IF color = "w" THEN SIZE - 2 ELSE 1
      dr == R(to) - R(from)
      dc == C(to) - C(from)
      target == board[R(to)][C(to)]
  IN  IF dc = 0
      THEN \/ dr = dir /\ target = NULL
           \/ /\ R(from) = startRow
              /\ dr = 2 * dir
              /\ board[R(from) + dir][C(from)] = NULL
      ELSE IF Abs(dc) = 1 /\ dr = dir
      THEN \/ target # NULL /\ colorOf(target) # color
           \/ enPassantOk(board, from, to, color, enPassantTarget, enPassantPawn)
      ELSE FALSE

isValidPawnMove(board, from, to, color, enPassantTarget, enPassantPawn) ==
  LET dir == IF color = "w" THEN -1 ELSE 1
      startRow == IF color = "w" THEN SIZE - 2 ELSE 1
      dr == R(to) - R(from)
      dc == C(to) - C(from)
      target == board[R(to)][C(to)]
  IN  IF dc = 0
      THEN \/ dr = dir /\ target = NULL
           \/ /\ R(from) = startRow
              /\ dr = 2 * dir
              /\ target = NULL
              /\ board[R(from) + dir][C(from)] = NULL
      ELSE IF Abs(dc) = 1 /\ dr = dir
      THEN \/ target # NULL /\ colorOf(target) # color
           \/ enPassantOk(board, from, to, color, enPassantTarget, enPassantPawn)
      ELSE FALSE

\* The verdict objects { ok: true } and { ok: false, reason }.  The source
\* spells the self-capture reason with a typographic apostrophe.  Threw stands
\* for a TypeError raised inside isValidMove instead of a verdict.
Ok == [ok |-> TRUE, reason |-> ""]
Fail(reason) == [ok |-> FALSE, reason |-> reason]
Threw == [ok |-> FALSE, reason |-> "TypeError"]

\* The left operands of && in the Bishop, Rook and Queen cases: pathClear is
\* called only when they hold.
bishopLine(dr, dc) == Abs(dr) = Abs(dc)
rookLine(dr, dc) == dr = 0 \/ dc = 0
\* Mutant of queenLine: the Queen's path is walked for any pair of squares.
queenLineAny(dr, dc) == TRUE

queenLine(dr, dc) == (Abs(dr) = Abs(dc)) \/ (dr = 0 \/ dc = 0)

\* const ok = <line> && pathClear(board, from, to)
slideVerdict(line, board, from, to, reason) ==
  IF ~line THEN Fail(reason)
  ELSE LET clear == pathClear(board, from, to)
       IN  IF clear = "TypeError" THEN Threw
           ELSE IF clear = "true" THEN Ok
           ELSE Fail(reason)

kingStep(adr, adc) == adr <= 1 /\ adc <= 1

\* Mutant of nobleStep: the Noble steps along ranks and files only.
nobleStepOrthogonal(adr, adc) == adr + adc = 1

nobleStep(adr, adc) == adr <= 1 /\ adc <= 1

\* The switch (pieceType) of isValidMove.
typeVerdict(board, from, to, pieceColor, pieceType, enPassantTarget, enPassantPawn) ==
  LET dr == R(to) - R(from)
      dc == C(to) - C(from)
      adr == Abs(dr)
      adc == Abs(dc)
  IN  CASE pieceType = "P" ->
             IF isValidPawnMove(board, from, to, pieceColor,
                                enPassantTarget, enPassantPawn)
             THEN Ok ELSE Fail("Illegal pawn move.")
        [] pieceType = "N" ->
             IF (adr = 2 /\ adc = 1) \/ (adr = 1 /\ adc = 2)
             THEN Ok ELSE Fail("Illegal knight move.")
        [] pieceType = "B" ->
             slideVerdict(bishopLine(dr, dc), board, from, to, "Illegal bishop move.")
        [] pieceType = "R" ->
             slideVerdict(rookLine(dr, dc), board, from, to, "Illegal rook move.")
        [] pieceType = "Q" ->
             slideVerdict(queenLine(dr, dc), board, from, to, "Illegal queen move.")
        [] pieceType = "K" ->
             IF kingStep(adr, adc) THEN Ok ELSE Fail("Illegal king move.")
        [] pieceType = "A" ->
             IF nobleStep(adr, adc) THEN Ok ELSE Fail("Illegal noble move.")
        [] OTHER -> Fail("Unknown piece.")

\* isValidMove reaches a call of pathClear(board, from, to): the five common
\* checks pass, the piece slides and its line test holds.
pathClearCalled(board, from, to, turnColor) ==
  /\ inBounds(R(from), C(from)) /\ inBounds(R(to), C(to))
  /\ ~(R(from) = R(to) /\ C(from) = C(to))
  /\ LET piece == board[R(from)][C(from)]
         target == board[R(to)][C(to)]
         dr == R(to) - R(from)
         dc == C(to) - C(from)
     IN  /\ piece # NULL
         /\ colorOf(piece) = turnColor
         /\ ~(target # NULL /\ colorOf(target) = colorOf(piece))
         /\ \/ typeOf(piece) = "B" /\ bishopLine(dr, dc)
            \/ typeOf(piece) = "R" /\ rookLine(dr, dc)
            \/ typeOf(piece) = "Q" /\ queenLine(dr, dc)

\* Mutant of isValidMove: the self-capture test comes before the ownership
\* test.
isValidMoveOwnPieceFirst(board, from, to, turnColor, enPassantTarget, enPassantPawn) ==
  IF ~inBounds(R(from), C(from)) \/ ~inBounds(R(to), C(to))
  THEN Fail("Out of bounds.")
  ELSE IF R(from) = R(to) /\ C(from) = C(to)
  THEN Fail("You must move to a different square.")
  ELSE
    LET piece == board[R(from)][C(from)]
        target == board[R(to)][C(to)]
    IN  IF piece = NULL THEN Fail("No piece on that square.")
        ELSE IF target # NULL /\ colorOf(target) = turnColor
        THEN Fail("You can't capture your own piece.")
        ELSE IF colorOf(piece) # turnColor THEN Fail("Not your piece / not your turn.")
        ELSE typeVerdict(board, from, to, colorOf(piece), typeOf(piece),
                         enPassantTarget, enPassantPawn)

\* Mutant of isValidMove: the destination is not tested for a piece of the
\* mover's colour.
isValidMoveFriendlyFire(board, from, to, turnColor, enPassantTarget, enPassantPawn) ==
  IF ~inBounds(R(from), C(from)) \/ ~inBounds(R(to), C(to))
  THEN Fail("Out of bounds.")
  ELSE IF R(from) = R(to) /\ C(from) = C(to)
  THEN Fail("You must move to a different square.")
  ELSE
    LET piece == board[R(from)][C(from)]
    IN  IF piece = NULL THEN Fail("No piece on that square.")
        ELSE IF colorOf(piece) # turnColor THEN Fail("Not your piece / not your turn.")
        ELSE typeVerdict(board, from, to, colorOf(piece), typeOf(piece),
                         enPassantTarget, enPassantPawn)

isValidMove(board, from, to, turnColor, enPassantTarget, enPassantPawn) ==
  IF ~inBounds(R(from), C(from)) \/ ~inBounds(R(to), C(to))
  THEN Fail("Out of bounds.")
  ELSE IF R(from) = R(to) /\ C(from) = C(to)
  THEN Fail("You must move to a different square.")
  ELSE
    LET piece == board[R(from)][C(from)]
        pieceColor == colorOf(piece)
        pieceType == typeOf(piece)
        target == board[R(to)][C(to)]
    IN  IF piece = NULL THEN Fail("No piece on that square.")
        ELSE IF pieceColor # turnColor THEN Fail("Not your piece / not your turn.")
        ELSE IF target # NULL /\ colorOf(target) = turnColor
        THEN Fail("You can't capture your own piece.")
        ELSE typeVerdict(board, from, to, pieceColor, pieceType,
                         enPassantTarget, enPassantPawn)

(***************************************************************************)
(* POST /api/move, after the verdict is ok: the mutation of `game`.        *)
(***************************************************************************)

\* Mutant of relocate: the source square is not emptied.
relocateKeepsSource(board, from, to, movingPiece) ==
  [board EXCEPT ![R(to)][C(to)] = movingPiece]

\* game.board[to.r][to.c] = movingPiece; game.board[from.r][from.c] = null
relocate(board, from, to, movingPiece) ==
  [board EXCEPT ![R(to)][C(to)] = movingPiece, ![R(from)][C(from)] = NULL]

isEnPassantCapture(g, from, to, pieceType, movingPiece) ==
  /\ pieceType = "P"
  /\ g.enPassantTarget # NULL
  /\ g.enPassantPawn # NULL
  /\ Cell(g.board, R(to), C(to)) = NULL
  /\ Abs(C(to) - C(from)) = 1
  /\ (R(to) - R(from)) = (IF movingPiece[1] = "w" THEN -1 ELSE 1)
  /\ R(to) = R(g.enPassantTarget)
  /\ C(to) = C(g.enPassantTarget)
  /\ R(g.enPassantPawn) = R(from)
  /\ C(g.enPassantPawn) = C(to)

\* Mutant of removeVictim: the pawn of an open window is removed by whatever
\* move is accepted next.
removeVictimAlways(board, isEP, epPawn) ==
  IF epPawn # NULL THEN [board EXCEPT ![R(epPawn)][C(epPawn)] = NULL] ELSE board

\* if (isEnPassantCapture) game.board[epPawn.r][epPawn.c] = null
removeVictim(board, isEP, epPawn) ==
  IF isEP THEN [board EXCEPT ![R(epPawn)][C(epPawn)] = NULL] ELSE board

\* The en-passant window after the move: cleared, then set by a double step.
isDoubleStep(movingPiece, from, to) ==
  /\ movingPiece[2] = "P"
  /\ R(from) = (IF movingPiece[1] = "w" THEN SIZE - 2 ELSE 1)
  /\ Abs(R(to) - R(from)) = 2
  /\ C(from) = C(to)

\* Mutant of newEnPassantTarget: the target is the pawn's origin square, not
\* the square it passed over.
newEnPassantTargetOrigin(movingPiece, from, to) ==
  IF isDoubleStep(movingPiece, from, to) THEN <<R(from), C(from)>> ELSE NULL

newEnPassantTarget(movingPiece, from, to) ==
  IF isDoubleStep(movingPiece, from, to)
  THEN <<R(from) + (IF movingPiece[1] = "w" THEN -1 ELSE 1), C(from)>>
  ELSE NULL

\* Mutant of newEnPassantPawn: the pawn is recorded on the square it passed
\* over.
newEnPassantPawnSkipped(movingPiece, from, to) ==
  IF isDoubleStep(movingPiece, from, to)
  THEN <<R(from) + (IF movingPiece[1] = "w" THEN -1 ELSE 1), C(from)>>
  ELSE NULL

newEnPassantPawn(movingPiece, from, to) ==
  IF isDoubleStep(movingPiece, from, to) THEN <<R(to), C(to)>> ELSE NULL

\* Mutant of didPromote: the promotion row is row 0 for both colours.
didPromoteRowZero(movingPiece, to) ==
  /\ movingPiece[2] = "P"
  /\ R(to) = 0

\* Auto-promotion: pawn reaching the last rank becomes a queen.
didPromote(movingPiece, to) ==
  /\ movingPiece[2] = "P"
  /\ R(to) = (IF movingPiece[1] = "w" THEN 0 ELSE SIZE - 1)

promote(board, movingPiece, to) ==
  IF didPromote(movingPiece, to)
  THEN [board EXCEPT ![R(to)][C(to)] = Piece(movingPiece[1], "Q")]
  ELSE board

\* Mutants of kingCaptured: only the capture of one side's King ends the game.
kingCapturedBlackOnly(captured) == captured = Piece("b", "K")

kingCapturedWhiteOnly(captured) == captured = Piece("w", "K")

\* if (captured && captured[1] === "K") game.isOver = true
kingCaptured(captured) == captured # NULL /\ captured[2] = "K"

flipTurn(turn) == IF turn = "w" THEN "b" ELSE "w"

\* Mutant of bumpMoveNumber: the counter grows on every accepted move.
bumpMoveNumberAlways(moveNumber, newTurn) == moveNumber + 1

\* if (game.turn === "w") game.moveNumber += 1, on the flipped turn
bumpMoveNumber(moveNumber, newTurn) ==
  IF newTurn = "w" THEN moveNumber + 1 ELSE moveNumber

baseNotation(pieceType, isCapture, from, to) ==
  IF pieceType = "P"
  THEN IF isCapture
       THEN <<toAlgebraic(R(from), C(from))[1]>> \o <<"x">> \o toAlgebraic(R(to), C(to))
       ELSE toAlgebraic(R(to), C(to))
  ELSE pieceToNotation(pieceType)
         \o (IF isCapture THEN <<"x">> ELSE <<>>)
         \o toAlgebraic(R(to), C(to))

Suffixes(isOver, promoted, isEP) ==
  (IF isOver THEN <<"#">> ELSE <<>>)
    \o (IF promoted THEN <<"=", "Q">> ELSE <<>>)
    \o (IF isEP THEN <<" ", "e", ".", "p", ".">> ELSE <<>>)

notationOf(pieceType, isCapture, from, to, isOver, promoted, isEP) ==
  baseNotation(pieceType, isCapture, from, to) \o Suffixes(isOver, promoted, isEP)

\* Mutant of applyMove: the turn and the move number stay as they are when
\* the move ends the game.
applyMoveKeepsTurnAtEnd(g, from, to) ==
  LET movingPiece == g.board[R(from)][C(from)]
      pieceType == typeOf(movingPiece)
      isCapture == g.board[R(to)][C(to)] # NULL
      isEP == isEnPassantCapture(g, from, to, pieceType, movingPiece)
      captured == g.board[R(to)][C(to)]
      b1 == relocate(g.board, from, to, movingPiece)
      b2 == removeVictim(b1, isEP, g.enPassantPawn)
      b3 == promote(b2, movingPiece, to)
      over == g.isOver \/ kingCaptured(captured)
      newTurn == IF over THEN g.turn ELSE flipTurn(g.turn)
  IN  [board |-> b3,
       turn |-> newTurn,
       moveNumber |-> IF over THEN g.moveNumber ELSE bumpMoveNumber(g.moveNumber, newTurn),
       isOver |-> over,
       enPassantTarget |-> newEnPassantTarget(movingPiece, from, to),
       enPassantPawn |-> newEnPassantPawn(movingPiece, from, to),
       moves |-> Append(g.moves,
                        notationOf(pieceType, isCapture, from, to, over,
                                   didPromote(movingPiece, to), isEP))]

applyMove(g, from, to) ==
  LET movingPiece == g.board[R(from)][C(from)]
      pieceType == typeOf(movingPiece)
      isCapture == g.board[R(to)][C(to)] # NULL
      isEP == isEnPassantCapture(g, from, to, pieceType, movingPiece)
      captured == g.board[R(to)][C(to)]
      b1 == relocate(g.board, from, to, movingPiece)
      b2 == removeVictim(b1, isEP, g.enPassantPawn)
      b3 == promote(b2, movingPiece, to)
      over == g.isOver \/ kingCaptured(captured)
      newTurn == flipTurn(g.turn)
  IN  [board |-> b3,
       turn |-> newTurn,
       moveNumber |-> bumpMoveNumber(g.moveNumber, newTurn),
       isOver |-> over,
       enPassantTarget |-> newEnPassantTarget(movingPiece, from, to),
       enPassantPawn |-> newEnPassantPawn(movingPiece, from, to),
       moves |-> Append(g.moves,
                        notationOf(pieceType, isCapture, from, to, over,
                                   didPromote(movingPiece, to), isEP))]

(***************************************************************************)
(* The responses.  kind "json" is a res.json(...) body with its HTTP       *)
(* status; kind "exception" is an uncaught TypeError in the handler, which *)
(* Express answers with its default 500 error page.                        *)
(***************************************************************************)
Accepted == [kind |-> "json", status |-> 200, ok |-> TRUE, reason |-> ""]
Rejected(reason) == [kind |-> "json", status |-> 200, ok |-> FALSE, reason |-> reason]
BadRequest == [kind |-> "json", status |-> 400, ok |-> FALSE, reason |-> "Missing from/to."]
Thrown == [kind |-> "exception", status |-> 500, ok |-> FALSE, reason |-> "TypeError"]

NoMove == [from |-> NULL, to |-> NULL, piece |-> NULL]

\* Mutant of reject: the en-passant window is cleared before the verdict is
\* looked at, so a refused move loses it.
rejectClearsWindow(st, response) ==
  [game |-> [st.game EXCEPT !.enPassantTarget = NULL, !.enPassantPawn = NULL],
   last |-> st.last,
   res |-> response]

\* return res.json({ ok: false, reason }): the handler returns before any
\* assignment to game.
reject(st, response) == [game |-> st.game, last |-> st.last, res |-> response]

\* The whole POST /api/move handler on the state st = [game, last], for a
\* request body whose from/to are squares or missing (null).  `last` records
\* the most recent accepted move (from, to, movingPiece) since the last reset.
handleMove(st, from, to) ==
  LET g == st.game IN
  IF g.isOver
  THEN reject(st, Rejected("Game over. Reset to play again."))
  ELSE IF from = NULL \/ to = NULL
  THEN reject(st, BadRequest)
  ELSE IF RowThrows(R(from)) \/ RowThrows(R(to))
  THEN [game |-> g, last |-> st.last, res |-> Thrown]
  ELSE
    LET verdict == isValidMove(g.board, from, to, g.turn,
                               g.enPassantTarget, g.enPassantPawn)
    IN  IF verdict = Threw
        THEN [game |-> g, last |-> st.last, res |-> Thrown]
        ELSE IF ~verdict.ok
        THEN reject(st, Rejected(verdict.reason))
        ELSE [game |-> applyMove(g, from, to),
              last |-> [from |-> from, to |-> to, piece |-> g.board[R(from)][C(from)]],
              res |-> Accepted]

\* Mutant of handleReset: only the board, the turn and the move number are
\* reinitialised.
handleResetBoardOnly(st) ==
  [game |-> [st.game EXCEPT !.board = initialBoard, !.turn = "w", !.moveNumber = 1],
   last |-> NoMove, res |-> Accepted]

\* The whole POST /api/reset handler.
handleReset(st) ==
  [game |-> initialGame, last |-> NoMove, res |-> Accepted]

(***************************************************************************)
(* Request bodies the clients send.  A body is <<from, to>>; a missing     *)
(* from or to is null.                                                     *)
(***************************************************************************)
Requests ==
  { \* pawn pushes and double steps from the starting ranks
    <<<<8, 4>>, <<6, 4>>>>, <<<<8, 4>>, <<7, 4>>>>, <<<<8, 5>>, <<6, 5>>>>,
    <<<<8, 6>>, <<6, 6>>>>, <<<<1, 4>>, <<3, 4>>>>, <<<<1, 6>>, <<3, 6>>>>,
    <<<<1, 3>>, <<2, 3>>>>, <<<<1, 9>>, <<2, 9>>>>,
    \* pawn moves that are never legal
    <<<<8, 4>>, <<5, 4>>>>, <<<<8, 6>>, <<8, 7>>>>, <<<<7, 4>>, <<8, 4>>>>,
    \* pieces
    <<<<9, 1>>, <<7, 2>>>>, <<<<0, 1>>, <<2, 2>>>>, <<<<9, 1>>, <<7, 1>>>>,
    <<<<9, 2>>, <<6, 5>>>>, <<<<9, 0>>, <<5, 0>>>>, <<<<9, 4>>, <<4, 9>>>>,
    <<<<9, 5>>, <<8, 5>>>>, <<<<9, 5>>, <<7, 5>>>>, <<<<9, 3>>, <<7, 3>>>>,
    <<<<9, 4>>, <<7, 5>>>>,
    <<<<0, 5>>, <<1, 6>>>>, <<<<0, 6>>, <<1, 6>>>>, <<<<0, 5>>, <<1, 4>>>>,
    <<<<1, 6>>, <<0, 5>>>>, <<<<1, 6>>, <<2, 6>>>>, <<<<8, 3>>, <<8, 4>>>>,
    \* a pawn far up the board: pushes, captures, en passant, promotion
    <<<<3, 5>>, <<2, 5>>>>, <<<<3, 5>>, <<2, 4>>>>, <<<<3, 5>>, <<2, 6>>>>,
    <<<<1, 4>>, <<0, 4>>>>, <<<<1, 4>>, <<0, 5>>>>, <<<<1, 4>>, <<0, 3>>>>,
    <<<<6, 5>>, <<7, 5>>>>, <<<<6, 5>>, <<7, 4>>>>, <<<<6, 5>>, <<7, 6>>>>,
    <<<<8, 4>>, <<9, 4>>>>, <<<<8, 4>>, <<9, 5>>>>, <<<<8, 4>>, <<9, 3>>>>,
    \* same square, empty source
    <<<<4, 4>>, <<4, 4>>>>, <<<<5, 2>>, <<4, 2>>>>,
    \* coordinates off the board, and missing squares
    <<<<-1, 4>>, <<0, 4>>>>, <<<<8, 4>>, <<10, 4>>>>, <<<<8, -1>>, <<7, 0>>>>,
    <<<<8, 9>>, <<7, 10>>>>, <<NULL, <<7, 4>>>>, <<<<8, 4>>, NULL>> }

(***************************************************************************)
(* Games played from the constructed state.  A behaviour starts from the   *)
(* constructed state or from the state the server is in after the first k  *)
(* requests of one of these games, computed with the handler itself.       *)
(***************************************************************************)
\* A white pawn walks up the f-file and takes on e9.
LineWhitePawn ==
  << <<<<8, 5>>, <<6, 5>>>>, <<<<1, 3>>, <<2, 3>>>>,
     <<<<6, 5>>, <<5, 5>>>>, <<<<0, 4>>, <<1, 3>>>>,
     <<<<5, 5>>, <<4, 5>>>>, <<<<1, 9>>, <<3, 9>>>>,
     <<<<4, 5>>, <<3, 5>>>>, <<<<3, 9>>, <<4, 9>>>>,
     <<<<3, 5>>, <<2, 5>>>>, <<<<4, 9>>, <<5, 9>>>>,
     <<<<2, 5>>, <<1, 4>>>>, <<<<5, 9>>, <<6, 9>>>> >>

\* A black pawn walks down the f-file and takes on e2.
LineBlackPawn ==
  << <<<<8, 3>>, <<7, 3>>>>, <<<<1, 5>>, <<3, 5>>>>,
     <<<<9, 4>>, <<8, 3>>>>, <<<<3, 5>>, <<4, 5>>>>,
     <<<<8, 9>>, <<7, 9>>>>, <<<<4, 5>>, <<5, 5>>>>,
     <<<<7, 9>>, <<6, 9>>>>, <<<<5, 5>>, <<6, 5>>>>,
     <<<<6, 9>>, <<5, 9>>>>, <<<<6, 5>>, <<7, 5>>>>,
     <<<<5, 9>>, <<4, 9>>>>, <<<<7, 5>>, <<8, 4>>>>,
     <<<<4, 9>>, <<3, 9>>>> >>

\* The white queen comes out to j6 and takes on g9, next to the black king.
LineQueen ==
  << <<<<8, 5>>, <<6, 5>>>>, <<<<1, 0>>, <<2, 0>>>>,
     <<<<9, 4>>, <<4, 9>>>>, <<<<2, 0>>, <<3, 0>>>>,
     <<<<4, 9>>, <<1, 6>>>>, <<<<3, 0>>, <<4, 0>>>> >>

\* A black pawn double-steps beside the white pawn on f7, and a white pawn
\* beside the black pawn on f4.
LineWhiteEnPassant == SubSeq(LineWhitePawn, 1, 7) \o << <<<<1, 6>>, <<3, 6>>>> >>
LineBlackEnPassant == SubSeq(LineBlackPawn, 1, 8) \o << <<<<8, 4>>, <<6, 4>>>> >>

\* ... and one more move by each side lets the white pawn's chance pass.
LineWhiteTooLate ==
  LineWhiteEnPassant \o << <<<<8, 0>>, <<7, 0>>>>, <<<<1, 0>>, <<2, 0>>>> >>

\* ... and the white queen takes the black king.
LineKingTaken == LineQueen \o << <<<<1, 6>>, <<0, 5>>>> >>

Openings ==
  { <<>>,
    SubSeq(LineWhitePawn, 1, 7), LineWhiteEnPassant, LineWhiteTooLate, LineWhitePawn,
    SubSeq(LineBlackPawn, 1, 8), LineBlackEnPassant, LineBlackPawn,
    SubSeq(LineQueen, 1, 2), SubSeq(LineQueen, 1, 5), LineQueen, LineKingTaken }

RECURSIVE Replay(_, _)
Replay(st, bodies) ==
  IF bodies = <<>> THEN st
  ELSE LET out == handleMove(st, bodies[1][1], bodies[1][2])
       IN  Replay([game |-> out.game, last |-> out.last], Tail(bodies))

\* The clients, and a client with no request in the server: `locals` are the
\* handler's constants, `seen` the game its handler read when it began and
\* `base` the serial state at that moment.
Clients == {"c1", "c2"}

NoLocals ==
  [movingPiece |-> NULL, pieceType |-> NULL, isCapture |-> FALSE,
   epPawn |-> NULL, isEnPassantCapture |-> FALSE]

Idle ==
  [pc |-> "idle", op |-> "none", from |-> NULL, to |-> NULL,
   locals |-> NoLocals, seen |-> NULL, base |-> NULL]

Constructed == [game |-> initialGame, last |-> NoMove]

\* The server after the requests of opening o, with no request waiting.
Started(o) ==
  LET st == Replay(Constructed, o) IN
  /\ Len(st.game.moves) = Len(o)
  /\ game = st.game
  /\ last = st.last
  /\ req = [op |-> "none", from |-> NULL, to |-> NULL]
  /\ res = Accepted
  /\ budget = MaxPly
  /\ tasks = [c \in Clients |-> Idle]

\* Requests served one after the other: `serial` is not used.
Init ==
  /\ \E o \in Openings : Started(o)
  /\ serial = NULL

\* POST /api/move with body b.
Move(b) ==
  \E out \in {handleMove([game |-> game, last |-> last], b[1], b[2])} :
  /\ out.res.ok => budget > 0
  /\ game' = out.game
  /\ last' = out.last
  /\ res' = out.res
  /\ req' = [op |-> "move", from |-> b[1], to |-> b[2]]
  /\ budget' = IF out.res.ok THEN budget - 1 ELSE budget
  /\ UNCHANGED <<tasks, serial>>

\* POST /api/reset.
Reset ==
  \E out \in {handleReset([game |-> game, last |-> last])} :
  /\ budget > 0
  /\ game' = out.game
  /\ last' = out.last
  /\ res' = out.res
  /\ req' = [op |-> "reset", from |-> NULL, to |-> NULL]
  /\ budget' = budget - 1
  /\ UNCHANGED <<tasks, serial>>

Next ==
  \/ \E b \in Requests : Move(b)
  \/ Reset

Spec == Init /\ [][Next]_vars

(***************************************************************************)
(* Concurrent clients.  Requests of several clients wait in the event      *)
(* loop; Node runs one callback at a time and both handlers are            *)
(* synchronous functions, so a handler that has begun runs to its          *)
(* res.json before another begins.  Here the handlers advance in steps     *)
(* (validate, mutate, notate; reset in two halves) on the shared `game`,   *)
(* and canDispatch is the condition under which the event loop starts the  *)
(* next callback.  `serial` is the state obtained by applying the whole    *)
(* handlers one at a time, in the order the event loop started them.       *)
(***************************************************************************)
ConcRequests ==
  { [op |-> "reset", from |-> NULL, to |-> NULL],
    [op |-> "move", from |-> <<8, 4>>, to |-> <<6, 4>>],
    [op |-> "move", from |-> <<8, 5>>, to |-> <<6, 5>>],
    [op |-> "move", from |-> <<1, 4>>, to |-> <<3, 4>>],
    [op |-> "move", from |-> <<3, 5>>, to |-> <<2, 6>>],
    [op |-> "move", from |-> <<1, 6>>, to |-> <<0, 5>>],
    [op |-> "move", from |-> <<9, 4>>, to |-> <<7, 5>>] }

InHandler(t) == t.pc \in {"validated", "mutated", "resetting"}

\* Mutant of canDispatch: a callback may start while another handler is
\* between two of its steps, as if the handlers awaited.
canDispatchAnytime(ts) == TRUE

\* The event loop starts a callback only when no handler is running.
canDispatch(ts) == \A c \in Clients : ~InHandler(ts[c])

\* The constants the move handler reads before it validates.
localsOf(g, from, to) ==
  LET movingPiece == g.board[R(from)][C(from)]
      pieceType == typeOf(movingPiece)
  IN  [movingPiece |-> movingPiece,
       pieceType |-> pieceType,
       isCapture |-> g.board[R(to)][C(to)] # NULL,
       epPawn |-> g.enPassantPawn,
       isEnPassantCapture |-> isEnPassantCapture(g, from, to, pieceType, movingPiece)]

\* The assignments to game between the verdict and the notation.
mutate(g, from, to, locals) ==
  LET captured == g.board[R(to)][C(to)]
      b1 == relocate(g.board, from, to, locals.movingPiece)
      b2 == removeVictim(b1, locals.isEnPassantCapture, locals.epPawn)
      newTurn == flipTurn(g.turn)
  IN  [g EXCEPT !.board = promote(b2, locals.movingPiece, to),
                !.enPassantTarget = newEnPassantTarget(locals.movingPiece, from, to),
                !.enPassantPawn = newEnPassantPawn(locals.movingPiece, from, to),
                !.isOver = g.isOver \/ kingCaptured(captured),
                !.turn = newTurn,
                !.moveNumber = bumpMoveNumber(g.moveNumber, newTurn)]

\* game.moves.push(notation)
notate(g, from, to, locals) ==
  [g EXCEPT !.moves =
     Append(g.moves,
            notationOf(locals.pieceType, locals.isCapture, from, to, g.isOver,
                       didPromote(locals.movingPiece, to), locals.isEnPassantCapture))]

\* The two halves of the reset handler's assignments.
resetBoard(g) == [g EXCEPT !.board = initialBoard, !.turn = "w", !.moveNumber = 1]

resetRest(g) ==
  [g EXCEPT !.isOver = FALSE, !.enPassantTarget = NULL, !.enPassantPawn = NULL,
            !.moves = <<>>]

\* A client's request reaches the server and waits for the event loop.
Submit(c, b) ==
  /\ tasks[c].pc = "idle"
  /\ budget > 0
  /\ tasks' = [tasks EXCEPT ![c] = [Idle EXCEPT !.pc = "queued", !.op = b.op,
                                                !.from = b.from, !.to = b.to]]
  /\ budget' = budget - 1
  /\ UNCHANGED <<game, req, res, last, serial>>

\* The move handler begins: it refuses, or passes the verdict.
StartMove(c) ==
  /\ tasks[c].pc = "queued"
  /\ tasks[c].op = "move"
  /\ canDispatch(tasks)
  /\ \E out \in {handleMove([game |-> game, last |-> last], tasks[c].from, tasks[c].to)} :
       IF out.res.ok
       THEN /\ tasks' = [tasks EXCEPT ![c].pc = "validated",
                                      ![c].locals = localsOf(game, tasks[c].from, tasks[c].to),
                                      ![c].seen = game,
                                      ![c].base = serial.game]
            /\ UNCHANGED <<game, req, res, last>>
       ELSE /\ tasks' = [tasks EXCEPT ![c] = Idle]
            /\ req' = [op |-> "move", from |-> tasks[c].from, to |-> tasks[c].to]
            /\ res' = out.res
            /\ UNCHANGED <<game, last>>
  /\ serial' = handleMove([game |-> serial.game, last |-> serial.last],
                          tasks[c].from, tasks[c].to)
  /\ UNCHANGED budget

MutateMove(c) ==
  /\ tasks[c].pc = "validated"
  /\ game' = mutate(game, tasks[c].from, tasks[c].to, tasks[c].locals)
  /\ tasks' = [tasks EXCEPT ![c].pc = "mutated"]
  /\ UNCHANGED <<req, res, last, budget, serial>>

NotateMove(c) ==
  /\ tasks[c].pc = "mutated"
  /\ game' = notate(game, tasks[c].from, tasks[c].to, tasks[c].locals)
  /\ last' = [from |-> tasks[c].from, to |-> tasks[c].to,
              piece |-> tasks[c].locals.movingPiece]
  /\ req' = [op |-> "move", from |-> tasks[c].from, to |-> tasks[c].to]
  /\ res' = Accepted
  /\ tasks' = [tasks EXCEPT ![c] = Idle]
  /\ UNCHANGED <<budget, serial>>

StartReset(c) ==
  /\ tasks[c].pc = "queued"
  /\ tasks[c].op = "reset"
  /\ canDispatch(tasks)
  /\ game' = resetBoard(game)
  /\ tasks' = [tasks EXCEPT ![c].pc = "resetting", ![c].seen = game,
                            ![c].base = serial.game]
  /\ serial' = handleReset([game |-> serial.game, last |-> serial.last])
  /\ UNCHANGED <<req, res, last, budget>>

FinishReset(c) ==
  /\ tasks[c].pc = "resetting"
  /\ game' = resetRest(game)
  /\ last' = NoMove
  /\ req' = [op |-> "reset", from |-> NULL, to |-> NULL]
  /\ res' = Accepted
  /\ tasks' = [tasks EXCEPT ![c] = Idle]
  /\ UNCHANGED <<budget, serial>>

NextConc ==
  \/ \E c \in Clients, b \in ConcRequests : Submit(c, b)
  \/ \E c \in Clients : StartMove(c)
  \/ \E c \in Clients : MutateMove(c)
  \/ \E c \in Clients : NotateMove(c)
  \/ \E c \in Clients : StartReset(c)
  \/ \E c \in Clients : FinishReset(c)

InitConc ==
  /\ \E o \in Openings : Started(o)
  /\ serial = [game |-> game, last |-> last, res |-> res]

SpecConc == InitConc /\ [][NextConc]_vars

(***************************************************************************)
(* Properties.  A step of the handler is described by the request and the  *)
(* response of the new state (req', res') and the game before and after.   *)
(***************************************************************************)
Squares == (0..(SIZE - 1)) \X (0..(SIZE - 1))

At(board, sq) == board[R(sq)][C(sq)]

GameOverReason == "Game over. Reset to play again."

MoveRequested == req'.op = "move"
MoveAccepted == req'.op = "move" /\ res'.ok
MoveRefused == req'.op = "move" /\ res'.kind = "json" /\ ~res'.ok

\* C1: whenever Submit move answers ok:false (a validation reason, a missing
\* square or the game-over reason), the board, turn, moveNumber, isOver, the
\* en-passant window and the moves history are what they were before the
\* request.
C1_RejectedMoveChangesNothing ==
  [][MoveRefused =>
       /\ game'.board = game.board
       /\ game'.turn = game.turn
       /\ game'.moveNumber = game.moveNumber
       /\ game'.isOver = game.isOver
       /\ game'.enPassantTarget = game.enPassantTarget
       /\ game'.enPassantPawn = game.enPassantPawn
       /\ game'.moves = game.moves]_vars

\* C1 witness: a pawn move refused while an en-passant window is open.
C1_Witness ==
  /\ req.op = "move"
  /\ res = Rejected("Illegal pawn move.")
  /\ game.enPassantTarget # NULL
  /\ game.enPassantPawn # NULL
  /\ game.moves # <<>>

IsKing(piece) == piece # NULL /\ piece[2] = "K"

\* C2: an accepted move that captures a King sets isOver; while isOver holds
\* every Submit move request, whatever its from/to, is refused with the
\* game-over reason and changes nothing; isOver becomes false again only by
\* a Reset.
C2_KingCaptureFreezesGame ==
  [][/\ (MoveAccepted /\ IsKing(At(game.board, req'.to))) => game'.isOver
     /\ (MoveRequested /\ game.isOver) =>
          (res' = Rejected(GameOverReason) /\ game' = game)
     /\ (game.isOver /\ ~game'.isOver) => req'.op = "reset"]_vars

\* C2 witness: a King is gone and a move request was refused as game over.
C2_Witness ==
  /\ game.isOver
  /\ req.op = "move"
  /\ res = Rejected(GameOverReason)
  /\ \E color \in {"w", "b"} :
       \A sq \in Squares : At(game.board, sq) # Piece(color, "K")

OffBoard(sq) == sq # NULL /\ ~inBounds(R(sq), C(sq))

\* C3 (as claimed): while the game is not over, a Submit move request whose
\* from or to has a row or column outside [0, 10) gets the structured
\* rejection {ok:false, reason:"Out of bounds."} and leaves the state as it
\* was; it never fails with an exception.
C3_OutOfBoundsIsRejected ==
  [][(/\ MoveRequested
      /\ ~game.isOver
      /\ req'.from # NULL /\ req'.to # NULL
      /\ (OffBoard(req'.from) \/ OffBoard(req'.to)))
       => (res' = Rejected("Out of bounds.") /\ game' = game)]_vars

Forward(color) == IF color = "w" THEN -1 ELSE 1
StartRank(color) == IF color = "w" THEN SIZE - 2 ELSE 1
FarRank(color) == IF color = "w" THEN 0 ELSE SIZE - 1
IsPawn(piece) == piece # NULL /\ piece[2] = "P"
OnBoard(sq) == sq # NULL /\ inBounds(R(sq), C(sq))

\* The request of this step asks the pawn of the side to move on req'.from to
\* step one square diagonally forward onto an empty square.
PawnDiagonalOntoEmpty ==
  /\ MoveRequested
  /\ ~game.isOver
  /\ OnBoard(req'.from) /\ OnBoard(req'.to)
  /\ At(game.board, req'.from) = Piece(game.turn, "P")
  /\ At(game.board, req'.to) = NULL
  /\ Abs(C(req'.to) - C(req'.from)) = 1
  /\ R(req'.to) - R(req'.from) = Forward(game.turn)

\* The accepted move before this step was an opposing pawn's two-step
\* advance that skipped over the square sq.
LastSkippedOver(sq) ==
  /\ IsPawn(last.piece)
  /\ last.piece[1] # game.turn
  /\ C(last.from) = C(last.to)
  /\ Abs(R(last.to) - R(last.from)) = 2
  /\ sq = <<R(last.from) + Forward(last.piece[1]), C(last.from)>>

\* C4: a diagonal pawn move onto an empty square is accepted only when the
\* immediately preceding accepted move was an opposing pawn's two-step
\* advance that skipped over exactly that square; otherwise (another move
\* was accepted since the double step, or there was none) it is refused with
\* "Illegal pawn move.".
C4_EnPassantOnlyOnNextMove ==
  [][PawnDiagonalOntoEmpty =>
       /\ res'.ok => LastSkippedOver(req'.to)
       /\ ~LastSkippedOver(req'.to) => res' = Rejected("Illegal pawn move.")]_vars

\* C4 witness: the en passant attempt comes one move pair too late: the
\* opposing pawn still stands beside the capturing pawn on its double-step
\* row, but the last accepted move was another one, and the move is refused.
C4_Witness ==
  /\ req.op = "move"
  /\ res = Rejected("Illegal pawn move.")
  /\ OnBoard(req.from) /\ OnBoard(req.to)
  /\ At(game.board, req.from) = Piece(game.turn, "P")
  /\ At(game.board, req.to) = NULL
  /\ Abs(C(req.to) - C(req.from)) = 1
  /\ R(req.to) - R(req.from) = Forward(game.turn)
  /\ IsPawn(game.board[R(req.from)][C(req.to)])
  /\ game.board[R(req.from)][C(req.to)][1] # game.turn
  /\ R(req.from) = StartRank(flipTurn(game.turn)) + 2 * Forward(flipTurn(game.turn))
  /\ last.to # <<R(req.from), C(req.to)>>
  /\ game.enPassantTarget = NULL

CountOf(board, piece) == Cardinality({sq \in Squares : At(board, sq) = piece})

\* C5: while isOver is false the board holds exactly one white King and
\* exactly one black King; a King leaves the board only as the piece on the
\* destination square of an accepted move, and that move sets isOver.
C5_OneKingEach ==
  /\ [](~game.isOver =>
          /\ CountOf(game.board, Piece("w", "K")) = 1
          /\ CountOf(game.board, Piece("b", "K")) = 1)
  /\ [][game'.board # game.board =>
          \A color \in {"w", "b"} :
            CountOf(game'.board, Piece(color, "K")) < CountOf(game.board, Piece(color, "K"))
              => /\ MoveAccepted
                 /\ At(game.board, req'.to) = Piece(color, "K")
                 /\ game'.isOver]_vars

\* C5 witness: a King has moved off its home square in a game that goes on.
C5_Witness ==
  /\ ~game.isOver
  /\ res.ok /\ req.op = "move"
  /\ IsKing(last.piece)
  /\ At(game.board, last.to) = last.piece
  /\ At(game.board, last.from) = NULL

\* C6: after an accepted pawn move to the mover's farthest rank (row 0 for
\* white, row 9 for black), by a push or by a capture, the destination holds
\* a Queen of the pawn's colour; no state has a white pawn on row 0 or a
\* black pawn on row 9.
C6_PawnOnFarRankIsQueen ==
  /\ [][(/\ MoveAccepted
         /\ IsPawn(At(game.board, req'.from))
         /\ R(req'.to) = FarRank(At(game.board, req'.from)[1]))
          => At(game'.board, req'.to) = Piece(At(game.board, req'.from)[1], "Q")]_vars
  /\ [](\A c \in 0..(SIZE - 1) :
          /\ game.board[0][c] # Piece("w", "P")
          /\ game.board[SIZE - 1][c] # Piece("b", "P"))

\* C6 witness: a pawn has just arrived on its farthest rank by a straight
\* push and a Queen of its colour stands there.
C6_Witness ==
  /\ res.ok /\ req.op = "move"
  /\ IsPawn(last.piece)
  /\ R(last.to) = FarRank(last.piece[1])
  /\ C(last.to) = C(last.from)
  /\ At(game.board, last.to) = Piece(last.piece[1], "Q")

\* C7: every accepted move flips the turn; moveNumber is unchanged by an
\* accepted White move and grows by exactly 1 on an accepted Black move; from
\* the starting state White's first move leaves it at 1 and Black's reply
\* makes it 2.
C7_TurnAndMoveNumber ==
  /\ [][MoveAccepted =>
          /\ game'.turn # game.turn
          /\ game'.turn \in {"w", "b"}
          /\ game.turn = "w" => game'.moveNumber = game.moveNumber
          /\ game.turn = "b" => game'.moveNumber = game.moveNumber + 1]_vars
  /\ [](Len(game.moves) = 1 => (game.turn = "b" /\ game.moveNumber = 1))
  /\ [](Len(game.moves) = 2 => (game.turn = "w" /\ game.moveNumber = 2))

\* C7 witness: Black has answered White's first move.
C7_Witness ==
  /\ res.ok /\ req.op = "move"
  /\ Len(game.moves) = 2
  /\ last.piece[1] = "b"
  /\ game.moveNumber = 2

\* The piece on the destination after an accepted move by `piece`.
Arrived(piece, to) ==
  IF IsPawn(piece) /\ R(to) = FarRank(piece[1]) THEN Piece(piece[1], "Q") ELSE piece

\* An accepted pawn move that changes file onto an empty square is the en
\* passant capture; its victim stands beside the pawn, on the destination file.
TookEnPassant(board, from, to) ==
  IsPawn(At(board, from)) /\ C(from) # C(to) /\ At(board, to) = NULL

\* C8: for every accepted move the source square becomes empty, the
\* destination holds the moving piece (a same-colour Queen if it promoted)
\* and every other square is unchanged, except that an en passant capture
\* also empties the victim square and nothing else.
C8_MoveFrame ==
  [][MoveAccepted =>
       \A sq \in Squares :
         At(game'.board, sq) =
           IF sq = req'.from THEN NULL
           ELSE IF sq = req'.to THEN Arrived(At(game.board, req'.from), req'.to)
           ELSE IF TookEnPassant(game.board, req'.from, req'.to)
                   /\ sq = <<R(req'.from), C(req'.to)>> THEN NULL
           ELSE At(game.board, sq)]_vars

\* C8 witness: an en passant capture has just been made: the pawn changed
\* file, the notation has no capture on the destination square itself, and
\* the square beside the pawn's origin is empty.
C8_Witness ==
  /\ res.ok /\ req.op = "move"
  /\ IsPawn(last.piece)
  /\ C(last.from) # C(last.to)
  /\ At(game.board, last.to) = last.piece
  /\ At(game.board, last.from) = NULL
  /\ game.board[R(last.from)][C(last.to)] = NULL
  /\ Len(game.moves[Len(game.moves)]) >= 5
  /\ SubSeq(game.moves[Len(game.moves)], Len(game.moves[Len(game.moves)]) - 4,
            Len(game.moves[Len(game.moves)])) = <<" ", "e", ".", "p", ".">>

\* The accepted move from -> to by `piece` is a pawn's two-step advance from
\* its starting rank along one file.
TwoStepAdvance(piece, from, to) ==
  /\ IsPawn(piece)
  /\ R(from) = StartRank(piece[1])
  /\ R(to) = R(from) + 2 * Forward(piece[1])
  /\ C(to) = C(from)

\* C9: after every accepted move the en-passant window is set iff the move
\* was a pawn's two-step advance from its starting rank along one file; then
\* the target is the skipped square and the victim the destination square.
\* After any other accepted move both are null.  From the start, white
\* (8,4)->(6,4) is accepted and gives target (7,4), victim (6,4), turn black.
C9_WindowAfterMove ==
  [][/\ MoveAccepted =>
          IF TwoStepAdvance(At(game.board, req'.from), req'.from, req'.to)
          THEN /\ game'.enPassantTarget =
                    <<R(req'.from) + Forward(At(game.board, req'.from)[1]), C(req'.from)>>
               /\ game'.enPassantPawn = req'.to
          ELSE /\ game'.enPassantTarget = NULL
               /\ game'.enPassantPawn = NULL
     /\ (/\ MoveRequested
         /\ game = initialGame
         /\ req'.from = <<8, 4>> /\ req'.to = <<6, 4>>)
          => /\ res' = Accepted
             /\ game'.enPassantTarget = <<7, 4>>
             /\ game'.enPassantPawn = <<6, 4>>
             /\ game'.turn = "b"]_vars

\* C9 witness: a two-step advance has just been accepted and the window
\* names the skipped square and the pawn.
C9_Witness ==
  /\ res.ok /\ req.op = "move"
  /\ TwoStepAdvance(last.piece, last.from, last.to)
  /\ game.enPassantTarget = <<R(last.from) + Forward(last.piece[1]), C(last.from)>>
  /\ game.enPassantPawn = last.to
  /\ At(game.board, last.to) = last.piece

IndexOf(str, ch) ==
  IF \E i \in 1..Len(str) : str[i] = ch
  THEN CHOOSE i \in 1..Len(str) : str[i] = ch /\ \A j \in 1..(i - 1) : str[j] # ch
  ELSE 0

\* C10 (as claimed): in every notation string of the history the suffixes
\* come in the order "=Q" (promotion), then "#" (game ended), then the en
\* passant marker " e.p.", all after the capture/destination part.
C10_SuffixOrder ==
  \A i \in 1..Len(game.moves) :
    LET n == game.moves[i]
        q == IndexOf(n, "=")
        h == IndexOf(n, "#")
        e == IndexOf(n, " ")
    IN  /\ (q > 0 /\ h > 0) => q < h
        /\ (q > 0 /\ e > 0) => q < e
        /\ (h > 0 /\ e > 0) => h < e
        /\ q # 1 /\ h # 1 /\ e # 1

LastOf(seq) == seq[Len(seq)]

\* C11 (as claimed): every accepted move that captures the black King on its
\* home square (0,5), by whatever white piece, sets isOver and appends to the
\* history a notation string whose last character is "#".
C11_KingCaptureEndsWithHash ==
  [][(/\ MoveAccepted
      /\ req'.to = <<0, 5>>
      /\ At(game.board, req'.to) = Piece("b", "K"))
       => /\ game'.isOver
          /\ Len(game'.moves) = Len(game.moves) + 1
          /\ LastOf(LastOf(game'.moves)) = "#"]_vars

(***************************************************************************)
(* The movement rules as the specification states them, written without    *)
(* the validator's operators.                                              *)
(***************************************************************************)
Max(a, b) == IF a >= b THEN a ELSE b

\* from and to lie on one rank, file or diagonal (and differ).
OnLine(from, to) ==
  /\ from # to
  /\ \/ R(from) = R(to)
     \/ C(from) = C(to)
     \/ Abs(R(to) - R(from)) = Abs(C(to) - C(from))

\* The squares strictly between from and to on their common line.
Between(from, to) ==
  LET n == Max(Abs(R(to) - R(from)), Abs(C(to) - C(from)))
  IN  { <<R(from) + k * Sign(R(to) - R(from)), C(from) + k * Sign(C(to) - C(from))>> :
          k \in 1..(n - 1) }

LineClear(board, from, to) == \A sq \in Between(from, to) : At(board, sq) = NULL

\* The four legal pawn moves, for a pawn of `color` on from, with the
\* en-passant target of the current window (or null).
PawnRule(board, from, to, color, epTarget) ==
  \/ /\ C(to) = C(from)
     /\ R(to) = R(from) + Forward(color)
     /\ At(board, to) = NULL
  \/ /\ C(to) = C(from)
     /\ R(from) = StartRank(color)
     /\ R(to) = R(from) + 2 * Forward(color)
     /\ At(board, <<R(from) + Forward(color), C(from)>>) = NULL
     /\ At(board, to) = NULL
  \/ /\ Abs(C(to) - C(from)) = 1
     /\ R(to) = R(from) + Forward(color)
     /\ At(board, to) # NULL
     /\ At(board, to)[1] # color
  \/ /\ Abs(C(to) - C(from)) = 1
     /\ R(to) = R(from) + Forward(color)
     /\ At(board, to) = NULL
     /\ epTarget # NULL
     /\ to = epTarget

ShapeRule(board, from, to, piece, epTarget) ==
  LET adr == Abs(R(to) - R(from))
      adc == Abs(C(to) - C(from))
  IN  CASE piece[2] = "P" -> PawnRule(board, from, to, piece[1], epTarget)
        [] piece[2] = "N" -> {adr, adc} = {1, 2}
        [] piece[2] = "B" -> adr = adc /\ adr > 0 /\ LineClear(board, from, to)
        [] piece[2] = "R" -> ((adr = 0) # (adc = 0)) /\ LineClear(board, from, to)
        [] piece[2] = "Q" -> OnLine(from, to) /\ LineClear(board, from, to)
        [] piece[2] \in {"K", "A"} -> adr <= 1 /\ adc <= 1
        [] OTHER -> FALSE

TypeReason(type) ==
  CASE type = "P" -> "Illegal pawn move."
    [] type = "N" -> "Illegal knight move."
    [] type = "B" -> "Illegal bishop move."
    [] type = "R" -> "Illegal rook move."
    [] type = "Q" -> "Illegal queen move."
    [] type = "K" -> "Illegal king move."
    [] type = "A" -> "Illegal noble move."
    [] OTHER -> "Unknown piece."

\* The reason of the first failing precondition, in the stated order, or ""
\* when none fails.
FirstFailure(g, from, to) ==
  IF ~inBounds(R(from), C(from)) \/ ~inBounds(R(to), C(to)) THEN "Out of bounds."
  ELSE IF from = to THEN "You must move to a different square."
  ELSE IF At(g.board, from) = NULL THEN "No piece on that square."
  ELSE IF At(g.board, from)[1] # g.turn THEN "Not your piece / not your turn."
  ELSE IF At(g.board, to) # NULL /\ At(g.board, to)[1] = At(g.board, from)[1]
  THEN "You can't capture your own piece."
  ELSE IF ~ShapeRule(g.board, from, to, At(g.board, from), g.enPassantTarget)
  THEN TypeReason(At(g.board, from)[2])
  ELSE ""

Bodies == {b \in Requests : b[1] # NULL /\ b[2] # NULL}

\* C12: the validator refuses a move with the reason of the first failing
\* precondition in the order: out of bounds, same source and destination,
\* empty source, piece not of the colour to move, destination holds a
\* same-colour piece, piece-type shape/path rule; it accepts iff none fails.
\* Checked for isValidMove on every reachable game and every request body.
C12_FirstFailingPrecondition ==
  \A b \in Bodies :
    isValidMove(game.board, b[1], b[2], game.turn,
                game.enPassantTarget, game.enPassantPawn)
      = (IF FirstFailure(game, b[1], b[2]) = ""
         THEN [ok |-> TRUE, reason |-> ""]
         ELSE [ok |-> FALSE, reason |-> FirstFailure(game, b[1], b[2])])

\* C12 witness: a request that fails two preconditions (the piece is not of
\* the colour to move, and the destination holds a piece of the mover's own
\* colour) was refused with the earlier one.
C12_Witness ==
  /\ req.op = "move"
  /\ res = Rejected("Not your piece / not your turn.")
  /\ OnBoard(req.from) /\ OnBoard(req.to)
  /\ At(game.board, req.from) # NULL
  /\ At(game.board, req.to) # NULL
  /\ At(game.board, req.to)[1] = At(game.board, req.from)[1]
  /\ At(game.board, req.from)[1] # game.turn

\* The starting position, rank by rank from black's back rank (row 0).
StartRows ==
  << <<"bR", "bN", "bB", "bA", "bQ", "bK", "bA", "bB", "bN", "bR">>,
     <<"bP", "bP", "bP", "bP", "bP", "bP", "bP", "bP", "bP", "bP">>,
     <<"", "", "", "", "", "", "", "", "", "">>,
     <<"", "", "", "", "", "", "", "", "", "">>,
     <<"", "", "", "", "", "", "", "", "", "">>,
     <<"", "", "", "", "", "", "", "", "", "">>,
     <<"", "", "", "", "", "", "", "", "", "">>,
     <<"", "", "", "", "", "", "", "", "", "">>,
     <<"wP", "wP", "wP", "wP", "wP", "wP", "wP", "wP", "wP", "wP">>,
     <<"wR", "wN", "wB", "wA", "wQ", "wK", "wA", "wB", "wN", "wR">> >>

PieceNames ==
  { <<n[1] \o n[2], Piece(n[1], n[2])>> :
      n \in {"w", "b"} \X {"P", "R", "N", "B", "A", "Q", "K"} } \cup { <<"", NULL>> }

Named(name) == (CHOOSE p \in PieceNames : p[1] = name)[2]

IsStartingPosition(board) ==
  \A sq \in Squares : At(board, sq) = Named(StartRows[R(sq) + 1][C(sq) + 1])

IsFreshGame(g) ==
  /\ IsStartingPosition(g.board)
  /\ g.turn = "w"
  /\ g.moveNumber = 1
  /\ g.isOver = FALSE
  /\ g.enPassantTarget = NULL
  /\ g.enPassantPawn = NULL
  /\ g.moves = <<>>

\* A white pawn's single or double step from its starting rank.
WhitePawnOpening(from, to) ==
  /\ OnBoard(from) /\ OnBoard(to)
  /\ R(from) = 8 /\ C(to) = C(from) /\ R(to) \in {6, 7}

\* C13: a reset, from any state (a finished game and an open en-passant
\* window included), leaves exactly the initial state: starting position,
\* white to move, move number 1, not over, no en-passant window, empty
\* history; and the move requested right after a reset is accepted when it is
\* a white pawn's opening step.
C13_ResetYieldsInitialState ==
  [][/\ req'.op = "reset" => (res'.ok /\ IsFreshGame(game'))
     /\ (req.op = "reset" /\ req'.op = "move" /\ WhitePawnOpening(req'.from, req'.to))
          => (res'.ok /\ Len(game'.moves) = 1 /\ game'.turn = "b")]_vars

\* C13 witness: a reset was served and the move after it was accepted.
C13_Witness ==
  /\ req.op = "move" /\ res.ok
  /\ Len(game.moves) = 1
  /\ budget <= MaxPly - 2

Running == {c \in Clients : InHandler(tasks[c])}

\* C14: with requests of several clients pending, a handler runs validate,
\* mutate and notate (a reset: both halves) as one step of the server: at
\* most one handler is running; the game a running handler read when it began
\* was the serial state, never a partially applied move or reset; and when no
\* handler is running, the game, the last accepted move and the last response
\* are those of applying the started requests one at a time in serial order.
C14_HandlersAreAtomic ==
  /\ Cardinality(Running) <= 1
  /\ \A c \in Running : tasks[c].seen = tasks[c].base
  /\ Running = {} => /\ game = serial.game
                     /\ last = serial.last
                     /\ res = serial.res

\* C14 witness: one client's move is applied to the board but not yet in the
\* history (a partially applied move) while the other client's request is
\* waiting.
C14_Witness ==
  \E c, d \in Clients :
    /\ c # d
    /\ tasks[c].pc = "mutated"
    /\ tasks[d].pc = "queued"
    /\ game # serial.game
    /\ game.board = serial.game.board

IsSlider(piece) == piece # NULL /\ piece[2] \in {"B", "R", "Q"}

Diagonal(from, to) == from # to /\ Abs(R(to) - R(from)) = Abs(C(to) - C(from))
Straight(from, to) == from # to /\ (R(from) = R(to) \/ C(from) = C(to))

\* The lines a sliding piece of the given type may move along.
LineAllowed(type, from, to) ==
  \/ type \in {"B", "Q"} /\ Diagonal(from, to)
  \/ type \in {"R", "Q"} /\ Straight(from, to)

\* C15: an accepted move of a Bishop, Rook or Queen goes along a line its type
\* allows (diagonal for Bishop, rank or file for Rook, either for Queen) and
\* every square strictly between source and destination was empty, so a
\* sliding piece never passes over an occupied square; and the move of the
\* side to move's bishop on (9,2) to (6,5), with a piece on a square between
\* them and no piece of its own colour on the destination, is rejected with
\* "Illegal bishop move.".
C15_SlidersNeedAClearLine ==
  [][(/\ MoveRequested
      /\ OnBoard(req'.from) /\ OnBoard(req'.to)
      /\ IsSlider(At(game.board, req'.from)))
       => /\ res'.ok => /\ LineAllowed(At(game.board, req'.from)[2], req'.from, req'.to)
                        /\ LineClear(game.board, req'.from, req'.to)
          /\ (/\ ~game.isOver
              /\ req'.from = <<9, 2>> /\ req'.to = <<6, 5>>
              /\ At(game.board, req'.from) = Piece(game.turn, "B")
              /\ ~LineClear(game.board, req'.from, req'.to)
              /\ (At(game.board, req'.to) = NULL
                    \/ At(game.board, req'.to)[1] # game.turn))
               => res' = Rejected("Illegal bishop move.")]_vars

\* C15 witness: a queen's move across several squares was accepted.
C15_Witness ==
  /\ req.op = "move" /\ res.ok
  /\ last.from = req.from /\ last.to = req.to
  /\ last.piece[2] = "Q"
  /\ At(game.board, req.to) = last.piece
  /\ Cardinality(Between(req.from, req.to)) >= 2
  /\ LineClear(game.board, req.from, req.to)

\* C16: a move of a pawn of the side to move is accepted iff it is one step
\* forward on its file onto an empty square, two steps forward on its file
\* from its starting rank with the intermediate and the destination square
\* empty, one step diagonally forward onto an opposing piece, or one step
\* diagonally forward onto the target of the current en-passant window; so a
\* pawn never moves backward or sideways and never captures straight ahead.
C16_PawnMoveAcceptedIffLegalForm ==
  [][(/\ MoveRequested
      /\ ~game.isOver
      /\ OnBoard(req'.from) /\ OnBoard(req'.to)
      /\ At(game.board, req'.from) = Piece(game.turn, "P"))
       => /\ res'.ok <=> PawnRule(game.board, req'.from, req'.to, game.turn,
                                  game.enPassantTarget)
          /\ res'.ok => /\ R(req'.to) - R(req'.from) \in {Forward(game.turn),
                                                           2 * Forward(game.turn)}
                        /\ (C(req'.to) = C(req'.from)) <=> (At(game.board, req'.to) = NULL
                                                          /\ req'.to # game.enPassantTarget)]_vars

\* C16 witness: a pawn's diagonal step onto an opposing piece was accepted.
C16_Witness ==
  /\ req.op = "move" /\ res.ok
  /\ last.from = req.from /\ last.to = req.to
  /\ IsPawn(last.piece)
  /\ Abs(C(req.to) - C(req.from)) = 1
  /\ R(req.to) = R(req.from) + Forward(last.piece[1])
  /\ LastOf(game.moves)[2] = "x"

FileLetter(c) == <<"a", "b", "c", "d", "e", "f", "g", "h", "i", "j">>[c + 1]

RankName(r) == IF r = 0 THEN <<"1", "0">> ELSE <<Digits[(SIZE - r) + 1]>>

SquareName(sq) == <<FileLetter(C(sq))>> \o RankName(R(sq))

IsPrefix(p, str) == Len(p) <= Len(str) /\ SubSeq(str, 1, Len(p)) = p

\* The move from `from` to `to` on `board` takes an opposing piece off the
\* board: the piece on the destination, or the pawn taken en passant.
RemovesPiece(board, from, to) ==
  At(board, to) # NULL \/ TookEnPassant(board, from, to)

\* C17 (as claimed): every accepted pawn move that removes an opposing piece
\* from the board, an en passant capture included, is notated as the origin
\* file letter, "x" and the destination square; an accepted pawn move that
\* removes nothing is notated as the destination square alone (markers for
\* game end, promotion and en passant may follow).
C17_PawnCaptureNotation ==
  [][(MoveAccepted /\ IsPawn(At(game.board, req'.from)))
       => /\ Len(game'.moves) = Len(game.moves) + 1
          /\ IF RemovesPiece(game.board, req'.from, req'.to)
             THEN IsPrefix(<<FileLetter(C(req'.from)), "x">> \o SquareName(req'.to),
                           LastOf(game'.moves))
             ELSE IsPrefix(SquareName(req'.to), LastOf(game'.moves))]_vars

\* The squares at most two rows and two files away from sq.
Near(sq) == {t \in Squares : Abs(R(t) - R(sq)) <= 2 /\ Abs(C(t) - C(sq)) <= 2}

Put(board, sq, piece) == [board EXCEPT ![R(sq)][C(sq)] = piece]

\* The validator's accept/reject answer for a piece of the given type and
\* colour standing on from, that colour to move.
AcceptsAs(type, color, board, from, to) ==
  isValidMove(Put(board, from, Piece(color, type)), from, to, color,
              game.enPassantTarget, game.enPassantPawn).ok

\* C18: on every board, for every square from that holds a King or a Noble
\* and every destination, the verdict for a Noble on from equals the verdict
\* for a King of the same colour on from: each is accepted exactly when
\* |dr| <= 1 and |dc| <= 1 and the destination holds no piece of that colour,
\* whatever stands around them.
C18_NobleMovesLikeKing ==
  \A from \in Squares :
    LET piece == At(game.board, from) IN
    (piece # NULL /\ piece[2] \in {"K", "A"}) =>
      \A to \in Near(from) :
        LET step == /\ Abs(R(to) - R(from)) <= 1
                    /\ Abs(C(to) - C(from)) <= 1
                    /\ ~(At(game.board, to) # NULL /\ At(game.board, to)[1] = piece[1])
        IN  /\ AcceptsAs("A", piece[1], game.board, from, to) = step
            /\ AcceptsAs("K", piece[1], game.board, from, to) = step

\* C18 witness: a Noble's step to a neighbouring square was accepted.
C18_Witness ==
  /\ req.op = "move" /\ res.ok
  /\ last.from = req.from /\ last.to = req.to
  /\ last.piece[2] = "A"
  /\ At(game.board, req.to) = last.piece
  /\ Abs(R(req.to) - R(req.from)) = 1 /\ Abs(C(req.to) - C(req.from)) <= 1

\* C19: while a move request whose squares are on the board is validated,
\* pathClear is called only for a source and destination on a common rank,
\* file or diagonal, so that its walk reaches the destination: every square it
\* reads is on the board and it returns true or false; and every such request
\* is answered with a result.
C19_PathClearOnlyOnLines ==
  [][(MoveRequested /\ OnBoard(req'.from) /\ OnBoard(req'.to))
       => /\ res'.kind = "json"
          /\ (~game.isOver /\ pathClearCalled(game.board, req'.from, req'.to, game.turn))
               => /\ OnLine(req'.from, req'.to)
                  /\ Between(req'.from, req'.to) \subseteq Squares
                  /\ pathClear(game.board, req'.from, req'.to) \in {"true", "false"}
                  /\ pathClear(game.board, req'.from, req'.to) = "true"
                       <=> LineClear(game.board, req'.from, req'.to)]_vars

\* C19 witness: the validator walked the bishop's diagonal from (9,2) toward
\* (6,5), found a piece on it and refused the move.
C19_Witness ==
  /\ req.op = "move" /\ req.from = <<9, 2>> /\ req.to = <<6, 5>>
  /\ res = Rejected("Illegal bishop move.")
  /\ pathClearCalled(game.board, req.from, req.to, game.turn)
  /\ pathClear(game.board, req.from, req.to) = "false"

WindowSet == game.enPassantTarget # NULL \/ game.enPassantPawn # NULL

\* C20: the en-passant target and pawn are never set one without the other;
\* and whenever the window is set, the target square is empty, the victim
\* square holds a pawn of the colour that is not to move, and the target is
\* the square on the victim's file directly behind it, one row toward the
\* victim's starting rank.
C20_WindowIsConsistent ==
  /\ (game.enPassantTarget = NULL) <=> (game.enPassantPawn = NULL)
  /\ WindowSet =>
       LET target == game.enPassantTarget
           victim == game.enPassantPawn
       IN  /\ OnBoard(target) /\ OnBoard(victim)
           /\ At(game.board, target) = NULL
           /\ IsPawn(At(game.board, victim))
           /\ At(game.board, victim)[1] # game.turn
           /\ C(target) = C(victim)
           /\ R(target) = R(victim) - Forward(At(game.board, victim)[1])
           /\ R(target) = StartRank(At(game.board, victim)[1])
                            + Forward(At(game.board, victim)[1])

\* C20 witness: the window is open behind a black pawn that has just made
\* its double step, white to move.
C20_Witness ==
  /\ WindowSet
  /\ game.turn = "w"
  /\ At(game.board, game.enPassantPawn) = Piece("b", "P")
  /\ R(game.enPassantTarget) = 2
  /\ req.op = "move" /\ res.ok /\ req.to = game.enPassantPawn

\* C21: the history holds one entry per move accepted since the last reset:
\* an accepted move appends exactly one string and leaves the earlier entries
\* as they were, a refused move appends none, a reset empties it; and in
\* every state white is to move iff the length is even and moveNumber is
\* 1 + floor(length / 2).
C21_HistoryCountsAcceptedMoves ==
  /\ [][/\ MoveAccepted => /\ Len(game'.moves) = Len(game.moves) + 1
                           /\ SubSeq(game'.moves, 1, Len(game.moves)) = game.moves
                           /\ Len(LastOf(game'.moves)) >= 2
        /\ (MoveRequested /\ ~res'.ok) => game'.moves = game.moves
        /\ req'.op = "reset" => game'.moves = <<>>]_vars
  /\ []((game.turn = "w") <=> (Len(game.moves) % 2 = 0))
  /\ [](game.moveNumber = 1 + (Len(game.moves) \div 2))

\* C21 witness: the seventh move of a game was accepted and took the King;
\* black is to move in move 4.
C21_Witness ==
  /\ req.op = "move" /\ res.ok
  /\ game.isOver
  /\ Len(game.moves) = 7
  /\ game.turn = "b"
  /\ game.moveNumber = 4

\* The 14 piece codes: a colour and a type letter.
PieceCodes == {"w", "b"} \X {"P", "N", "B", "R", "Q", "K", "A"}

ColourCount(board, color) ==
  Cardinality({sq \in Squares : At(board, sq) # NULL /\ At(board, sq)[1] = color})

Opponent(color) == IF color = "w" THEN "b" ELSE "w"

\* The squares other than `from` whose piece is gone after the step.
Lost(from) ==
  {sq \in Squares : /\ sq # from
                    /\ At(game.board, sq) # NULL
                    /\ At(game'.board, sq) # At(game.board, sq)}

\* C22: every accepted move takes at most one piece off the board, and a
\* piece taken off belongs to the mover's opponent (taken en passant: an
\* opposing pawn); the number of the mover's own pieces stays the same; every
\* cell is null or one of the 14 piece codes; and the reason "Unknown piece."
\* is never returned.
C22_OnlyOpposingPiecesLeave ==
  /\ [][MoveAccepted =>
          LET mover == At(game.board, req'.from)[1] IN
          /\ Cardinality(Lost(req'.from)) <= 1
          /\ \A sq \in Lost(req'.from) :
               /\ At(game.board, sq)[1] = Opponent(mover)
               /\ sq # req'.to => At(game.board, sq) = Piece(Opponent(mover), "P")
          /\ ColourCount(game'.board, mover) = ColourCount(game.board, mover)
          /\ ColourCount(game'.board, Opponent(mover))
               = ColourCount(game.board, Opponent(mover)) - Cardinality(Lost(req'.from))]_vars
  /\ [](\A sq \in Squares : At(game.board, sq) = NULL \/ At(game.board, sq) \in PieceCodes)
  /\ [](res.reason # "Unknown piece.")

\* C22 witness: a piece other than a pawn has just taken an opposing piece,
\* which left its side with fewer than twenty.
C22_Witness ==
  /\ req.op = "move" /\ res.ok
  /\ last.from = req.from /\ last.to = req.to
  /\ ~IsPawn(last.piece)
  /\ At(game.board, req.to) = last.piece
  /\ LastOf(game.moves)[2] = "x"
  /\ ColourCount(game.board, last.piece[1]) = 20
  /\ ColourCount(game.board, Opponent(last.piece[1])) < 20

====
